---- MODULE Spec2Model ----
(***************************************************************************)
(* Model of retrieval_graph/configuration.py: the dataclasses              *)
(* IndexConfiguration and Configuration, their generated __init__ and      *)
(* their __post_init__ defaulting pass over os.environ.                    *)
(*                                                                         *)
(* A Python mapping (os.environ, the keyword arguments of a call) is a     *)
(* function whose DOMAIN is the set of keys present.  A dict value         *)
(* (search_kwargs) is a set of <<key, value>> pairs.                       *)
(***************************************************************************)
EXTENDS Integers, Sequences, FiniteSets, TLC

VARIABLES environ, objs

vars == <<environ, objs>>

(* ---------------- bounds ---------------- *)

\* live configuration objects in the process-lifetime specification
MaxObjs == 2

(* ---------------- names ---------------- *)

EnvNames == {"USER_ID", "EMBEDDING_MODEL", "RETRIEVER_PROVIDER", "RESPONSE_MODEL", "QUERY_MODEL"}

IndexFields == {"user_id", "embedding_model", "retriever_provider", "search_kwargs"}

ConfigurationFields == IndexFields \cup {"response_system_prompt", "response_model", "query_system_prompt", "query_model"}

\* Literal[...] annotation of retriever_provider; an annotation only
RetrieverProviders == {"elastic", "elastic-local", "pinecone", "mongodb"}

\* the two prompt templates of retrieval_graph.prompts, opaque here
RESPONSE_SYSTEM_PROMPT == "prompts.RESPONSE_SYSTEM_PROMPT"

QUERY_SYSTEM_PROMPT == "prompts.QUERY_SYSTEM_PROMPT"

(* ---------------- os.environ.get ---------------- *)

\* variant: os.environ.get(key) or default
environ_get_falsy(env, key, default) ==
    IF key \in DOMAIN env /\ env[key] # "" THEN env[key] ELSE default

environ_get(env, key, default) ==
    IF key \in DOMAIN env THEN env[key] ELSE default

(* ---------------- generated __init__ ---------------- *)

\* a keyword argument, or the field's default when the keyword is absent
Arg(kwargs, name, default) ==
    IF name \in DOMAIN kwargs THEN kwargs[name] ELSE default

\* variant: the field default of retriever_provider is another literal than
\* the one __post_init__ compares with
IndexConfiguration_init_drift(kwargs) ==
    [user_id            |-> Arg(kwargs, "user_id", ""),
     embedding_model    |-> Arg(kwargs, "embedding_model", "openai/text-embedding-3-small"),
     retriever_provider |-> Arg(kwargs, "retriever_provider", "elastic-local"),
     search_kwargs      |-> Arg(kwargs, "search_kwargs", {})]

IndexConfiguration_init(kwargs) ==
    [user_id            |-> Arg(kwargs, "user_id", ""),
     embedding_model    |-> Arg(kwargs, "embedding_model", "openai/text-embedding-3-small"),
     retriever_provider |-> Arg(kwargs, "retriever_provider", "elastic"),
     search_kwargs      |-> Arg(kwargs, "search_kwargs", {})]

\* variant: the defaults of the two prompts are exchanged
Configuration_init_swapped(kwargs) ==
    [user_id                |-> Arg(kwargs, "user_id", ""),
     embedding_model        |-> Arg(kwargs, "embedding_model", "openai/text-embedding-3-small"),
     retriever_provider     |-> Arg(kwargs, "retriever_provider", "elastic"),
     search_kwargs          |-> Arg(kwargs, "search_kwargs", {}),
     response_system_prompt |-> Arg(kwargs, "response_system_prompt", QUERY_SYSTEM_PROMPT),
     response_model         |-> Arg(kwargs, "response_model", "anthropic/claude-3-5-sonnet-20240620"),
     query_system_prompt    |-> Arg(kwargs, "query_system_prompt", RESPONSE_SYSTEM_PROMPT),
     query_model            |-> Arg(kwargs, "query_model", "anthropic/claude-3-haiku-20240307")]

Configuration_init(kwargs) ==
    [user_id                |-> Arg(kwargs, "user_id", ""),
     embedding_model        |-> Arg(kwargs, "embedding_model", "openai/text-embedding-3-small"),
     retriever_provider     |-> Arg(kwargs, "retriever_provider", "elastic"),
     search_kwargs          |-> Arg(kwargs, "search_kwargs", {}),
     response_system_prompt |-> Arg(kwargs, "response_system_prompt", RESPONSE_SYSTEM_PROMPT),
     response_model         |-> Arg(kwargs, "response_model", "anthropic/claude-3-5-sonnet-20240620"),
     query_system_prompt    |-> Arg(kwargs, "query_system_prompt", QUERY_SYSTEM_PROMPT),
     query_model            |-> Arg(kwargs, "query_model", "anthropic/claude-3-haiku-20240307")]

(* ---------------- __post_init__ ---------------- *)

\* variant: the environment is read whether or not the field is at its default
IndexConfiguration_post_init_envwins(self, env) ==
    [self EXCEPT !.user_id = environ_get(env, "USER_ID", self.user_id),
                 !.embedding_model = environ_get(env, "EMBEDDING_MODEL", self.embedding_model),
                 !.retriever_provider = environ_get(env, "RETRIEVER_PROVIDER", self.retriever_provider)]

\* variant: every field is tested the way user_id is, "if not self.<field>"
IndexConfiguration_post_init_truthy(self, env) ==
    LET s1 == IF self.user_id = ""
              THEN [self EXCEPT !.user_id = environ_get(env, "USER_ID", "")]
              ELSE self
        s2 == IF s1.embedding_model = ""
              THEN [s1 EXCEPT !.embedding_model =
                        environ_get(env, "EMBEDDING_MODEL", "openai/text-embedding-3-small")]
              ELSE s1
        s3 == IF s2.retriever_provider = ""
              THEN [s2 EXCEPT !.retriever_provider =
                        environ_get(env, "RETRIEVER_PROVIDER", "elastic")]
              ELSE s2
    IN  s3

IndexConfiguration_post_init(self, env) ==
    LET s1 == IF self.user_id = ""
              THEN [self EXCEPT !.user_id = environ_get(env, "USER_ID", "")]
              ELSE self
        s2 == IF s1.embedding_model = "openai/text-embedding-3-small"
              THEN [s1 EXCEPT !.embedding_model =
                        environ_get(env, "EMBEDDING_MODEL", "openai/text-embedding-3-small")]
              ELSE s1
        s3 == IF s2.retriever_provider = "elastic"
              THEN [s2 EXCEPT !.retriever_provider =
                        environ_get(env, "RETRIEVER_PROVIDER", "elastic")]
              ELSE s2
    IN  s3

\* variant: super().__post_init__() is not called
Configuration_post_init_nosuper(self, env) ==
    LET s1 == IF self.response_model = "anthropic/claude-3-5-sonnet-20240620"
              THEN [self EXCEPT !.response_model =
                        environ_get(env, "RESPONSE_MODEL", "anthropic/claude-3-5-sonnet-20240620")]
              ELSE self
        s2 == IF s1.query_model = "anthropic/claude-3-haiku-20240307"
              THEN [s1 EXCEPT !.query_model =
                        environ_get(env, "QUERY_MODEL", "anthropic/claude-3-haiku-20240307")]
              ELSE s1
    IN  s2

\* variant: response_model and query_model are read from the environment
\* whether or not they are at their defaults
Configuration_post_init_envwins(self, env) ==
    LET s0 == IndexConfiguration_post_init(self, env)
    IN  [s0 EXCEPT !.response_model = environ_get(env, "RESPONSE_MODEL", s0.response_model),
                   !.query_model = environ_get(env, "QUERY_MODEL", s0.query_model)]

Configuration_post_init(self, env) ==
    LET s0 == IndexConfiguration_post_init(self, env)
        s1 == IF s0.response_model = "anthropic/claude-3-5-sonnet-20240620"
              THEN [s0 EXCEPT !.response_model =
                        environ_get(env, "RESPONSE_MODEL", "anthropic/claude-3-5-sonnet-20240620")]
              ELSE s0
        s2 == IF s1.query_model = "anthropic/claude-3-haiku-20240307"
              THEN [s1 EXCEPT !.query_model =
                        environ_get(env, "QUERY_MODEL", "anthropic/claude-3-haiku-20240307")]
              ELSE s1
    IN  s2

\* IndexConfiguration(**kwargs): __init__ then __post_init__
IndexConfiguration(kwargs, env) ==
    IndexConfiguration_post_init(IndexConfiguration_init(kwargs), env)

\* Configuration(**kwargs): __init__ then __post_init__
Configuration(kwargs, env) ==
    Configuration_post_init(Configuration_init(kwargs), env)

(* ---------------- inputs ---------------- *)

\* values a process environment may hold per variable: the empty string,
\* the field's own default literal, and another string
EnvValues ==
    [USER_ID            |-> <<"", "env_user">>,
     EMBEDDING_MODEL    |-> <<"", "openai/text-embedding-3-small", "cohere/embed-english-v3.0">>,
     RETRIEVER_PROVIDER |-> <<"", "elastic", "mongodb">>,
     RESPONSE_MODEL     |-> <<"", "anthropic/claude-3-5-sonnet-20240620", "openai/gpt-4">>,
     QUERY_MODEL        |-> <<"", "anthropic/claude-3-haiku-20240307", "openai/gpt-3.5-turbo">>]

\* values a caller may pass per field: the default literal and others
ArgValues ==
    [user_id                |-> <<"", "test_user">>,
     embedding_model        |-> <<"openai/text-embedding-3-small", "openai/text-embedding-ada-002">>,
     retriever_provider     |-> <<"elastic", "pinecone", "chroma">>,
     search_kwargs          |-> <<{<<"k", 10>>}>>,
     response_system_prompt |-> <<"Answer briefly.">>,
     response_model         |-> <<"anthropic/claude-3-5-sonnet-20240620", "anthropic/claude-3-opus-20240229">>,
     query_system_prompt    |-> <<"Rewrite the query.">>,
     query_model            |-> <<"anthropic/claude-3-haiku-20240307", "anthropic/claude-3-sonnet-20240229">>]

\* the mapping that holds key k exactly when pick[k] > 0, with value table[k][pick[k]]
Picked(table, pick) ==
    [k \in {x \in DOMAIN pick : pick[x] > 0} |-> table[k][pick[k]]]

\* every mapping over a subset of keys with values from table
Mappings(table, keys) ==
    { Picked(table, pick) :
        pick \in { p \in [keys -> 0..3] : \A k \in keys : p[k] <= Len(table[k]) } }

Environments == Mappings(EnvValues, EnvNames)

IndexKwargs == Mappings(ArgValues, IndexFields)

ConfigurationKwargs == Mappings(ArgValues, ConfigurationFields)

\* the variables and calls of the process-lifetime specification
LifeEnvNames == {"USER_ID", "EMBEDDING_MODEL", "RETRIEVER_PROVIDER", "RESPONSE_MODEL"}

LifeIndexKwargs ==
    { Picked(ArgValues, [k \in {"user_id"} |-> n]) : n \in {2} }

LifeConfigurationKwargs ==
    { Picked(ArgValues, [k \in {"embedding_model", "response_model"} |-> n]) : n \in {0, 2} }

(* ---------------- operations ---------------- *)

\* the outcome of one constructor call: the class, the object's fields, the
\* exception raised ("None": the call returned), and (for the record) the
\* call's keyword arguments and the environment at the time of the call
Obj(cls, self, kwargs, env, exc) ==
    [cls |-> cls, self |-> self, kwargs |-> kwargs, env |-> env, exc |-> exc]

\* variant: __post_init__ raises for a provider outside the annotated literals
NewIndexConfiguration_validating(kwargs) ==
    LET self == IndexConfiguration(kwargs, environ)
        exc == IF self.retriever_provider \in RetrieverProviders THEN "None" ELSE "ValueError"
    IN  /\ objs' = Append(objs, Obj("IndexConfiguration", self, kwargs, environ, exc))
        /\ UNCHANGED environ

NewIndexConfiguration(kwargs) ==
    /\ objs' = Append(objs, Obj("IndexConfiguration", IndexConfiguration(kwargs, environ), kwargs, environ, "None"))
    /\ UNCHANGED environ

\* variant: os.environ.setdefault in place of os.environ.get
NewConfiguration_setdefault(kwargs) ==
    /\ objs' = Append(objs, Obj("Configuration", Configuration(kwargs, environ), kwargs, environ, "None"))
    /\ environ' = [k \in DOMAIN environ \cup EnvNames |->
                      IF k \in DOMAIN environ THEN environ[k]
                      ELSE IF k = "USER_ID" THEN ""
                      ELSE IF k = "EMBEDDING_MODEL" THEN "openai/text-embedding-3-small"
                      ELSE IF k = "RETRIEVER_PROVIDER" THEN "elastic"
                      ELSE IF k = "RESPONSE_MODEL" THEN "anthropic/claude-3-5-sonnet-20240620"
                      ELSE "anthropic/claude-3-haiku-20240307"]

\* variant: the environment is read once, at the first construction, and the
\* copy is used from then on
NewConfiguration_cachedenv(kwargs) ==
    LET env == IF objs = <<>> THEN environ ELSE objs[1].env
    IN  /\ objs' = Append(objs, Obj("Configuration", Configuration(kwargs, env), kwargs, environ, "None"))
        /\ UNCHANGED environ

NewConfiguration(kwargs) ==
    /\ objs' = Append(objs, Obj("Configuration", Configuration(kwargs, environ), kwargs, environ, "None"))
    /\ UNCHANGED environ

\* os.environ[key] = value, as patch.dict does entering its block
SetEnv(key, value) ==
    /\ environ' = [k \in DOMAIN environ \cup {key} |-> IF k = key THEN value ELSE environ[k]]
    /\ UNCHANGED objs

\* del os.environ[key], as patch.dict does leaving its block
DelEnv(key) ==
    /\ key \in DOMAIN environ
    /\ environ' = [k \in DOMAIN environ \ {key} |-> environ[k]]
    /\ UNCHANGED objs

(* ---------------- specifications ---------------- *)

\* the lifetime of a process: objects are constructed while the environment
\* is being changed around them
Init ==
    /\ environ = [k \in {} |-> ""]
    /\ objs = <<>>

Next ==
    \/ \E key \in LifeEnvNames : SetEnv(key, EnvValues[key][Len(EnvValues[key])])
    \/ \E key \in LifeEnvNames : DelEnv(key)
    \/ /\ Len(objs) < MaxObjs
       /\ \E kwargs \in LifeIndexKwargs : NewIndexConfiguration(kwargs)
    \/ /\ Len(objs) < MaxObjs
       /\ \E kwargs \in LifeConfigurationKwargs : NewConfiguration(kwargs)

Spec == Init /\ [][Next]_vars

\* one construction, for every environment and every call
InitCall ==
    /\ environ \in Environments
    /\ objs = <<>>

NextCall ==
    \/ /\ objs = <<>>
       /\ \E kwargs \in IndexKwargs : NewIndexConfiguration(kwargs)
    \/ /\ objs = <<>>
       /\ \E kwargs \in ConfigurationKwargs : NewConfiguration(kwargs)

SpecCall == InitCall /\ [][NextCall]_vars

(* ---------------- vocabulary of the properties ---------------- *)

\* the fields bound to an environment variable, per class
BoundFields(cls) ==
    IF cls = "IndexConfiguration"
    THEN {"user_id", "embedding_model", "retriever_provider"}
    ELSE {"user_id", "embedding_model", "retriever_provider", "response_model", "query_model"}

\* the fields with no environment variable, per class
UnboundFields(cls) ==
    IF cls = "IndexConfiguration"
    THEN {"search_kwargs"}
    ELSE {"search_kwargs", "response_system_prompt", "query_system_prompt"}

\* field / environment variable / built-in default, as tabulated
VarOf ==
    [user_id            |-> "USER_ID",
     embedding_model    |-> "EMBEDDING_MODEL",
     retriever_provider |-> "RETRIEVER_PROVIDER",
     response_model     |-> "RESPONSE_MODEL",
     query_model        |-> "QUERY_MODEL"]

BuiltIn ==
    [user_id                |-> "",
     embedding_model        |-> "openai/text-embedding-3-small",
     retriever_provider     |-> "elastic",
     search_kwargs          |-> {},
     response_system_prompt |-> RESPONSE_SYSTEM_PROMPT,
     response_model         |-> "anthropic/claude-3-5-sonnet-20240620",
     query_system_prompt    |-> QUERY_SYSTEM_PROMPT,
     query_model            |-> "anthropic/claude-3-haiku-20240307"]

Objects == { objs[i] : i \in 1..Len(objs) }

Without(m, key) == [k \in DOMAIN m \ {key} |-> m[k]]

Restrict(m, keys) == [k \in DOMAIN m \cap keys |-> m[k]]

\* the value of the environment variable if set, else the built-in default
EnvOrBuiltIn(env, f) ==
    IF VarOf[f] \in DOMAIN env THEN env[VarOf[f]] ELSE BuiltIn[f]

Construct(cls, kwargs, env) ==
    IF cls = "IndexConfiguration" THEN IndexConfiguration(kwargs, env) ELSE Configuration(kwargs, env)

PostInit(cls, self, env) ==
    IF cls = "IndexConfiguration"
    THEN IndexConfiguration_post_init(self, env)
    ELSE Configuration_post_init(self, env)

(* ---------------- C1 ---------------- *)

\* C1 as stated: every bound field holds the explicit value if one was
\* supplied, else the environment variable's value if set, else the default.
C1_ExplicitEnvDefault ==
    \A o \in Objects : \A f \in BoundFields(o.cls) :
        o.self[f] = IF f \in DOMAIN o.kwargs THEN o.kwargs[f] ELSE EnvOrBuiltIn(o.env, f)

\* C1 amended: every bound field holds the explicit value if one was supplied
\* and differs from the field's built-in default, else the environment
\* variable's value if set, else the default.
C1_NonDefaultExplicitEnvDefault ==
    \A o \in Objects : \A f \in BoundFields(o.cls) :
        o.self[f] = IF f \in DOMAIN o.kwargs /\ o.kwargs[f] # BuiltIn[f]
                    THEN o.kwargs[f]
                    ELSE EnvOrBuiltIn(o.env, f)

\* all three levels of the precedence occur in one construction
C1_Witness ==
    \E o \in Objects :
        /\ o.cls = "Configuration"
        /\ "user_id" \in DOMAIN o.kwargs /\ o.kwargs.user_id = "test_user"
        /\ "USER_ID" \in DOMAIN o.env /\ o.self.user_id = "test_user"
        /\ "embedding_model" \in DOMAIN o.kwargs
        /\ o.kwargs.embedding_model = "openai/text-embedding-3-small"
        /\ "EMBEDDING_MODEL" \in DOMAIN o.env
        /\ o.self.embedding_model = "cohere/embed-english-v3.0"
        /\ "retriever_provider" \notin DOMAIN o.kwargs
        /\ "RETRIEVER_PROVIDER" \in DOMAIN o.env /\ o.self.retriever_provider = "mongodb"
        /\ "query_model" \notin DOMAIN o.kwargs
        /\ "QUERY_MODEL" \notin DOMAIN o.env
        /\ o.self.query_model = "anthropic/claude-3-haiku-20240307"

(* ---------------- C2 ---------------- *)

AllFiveNonDefault(kwargs) ==
    \A f \in BoundFields("Configuration") : f \in DOMAIN kwargs /\ kwargs[f] # BuiltIn[f]

\* C2: a Configuration built with explicit non-default values for all five
\* bound fields holds exactly those values, whatever the environment.
C2_ExplicitNonDefaultWins ==
    \A o \in Objects :
        (o.cls = "Configuration" /\ AllFiveNonDefault(o.kwargs))
            => \A f \in BoundFields("Configuration") : o.self[f] = o.kwargs[f]

C2_Witness ==
    \E o \in Objects :
        /\ o.cls = "Configuration"
        /\ AllFiveNonDefault(o.kwargs)
        /\ DOMAIN o.env = EnvNames
        /\ \A f \in BoundFields("Configuration") :
              o.env[VarOf[f]] # o.kwargs[f] /\ o.self[f] = o.kwargs[f]

(* ---------------- C3 ---------------- *)

\* C3: a Configuration built with no arguments holds, in every bound field
\* whose variable is set, that variable's value (the empty string and the
\* default literal included).
C3_EnvPopulates ==
    \A o \in Objects :
        (o.cls = "Configuration" /\ DOMAIN o.kwargs = {})
            => \A f \in BoundFields("Configuration") :
                  VarOf[f] \in DOMAIN o.env => o.self[f] = o.env[VarOf[f]]

C3_Witness ==
    \E o \in Objects :
        /\ o.cls = "Configuration" /\ DOMAIN o.kwargs = {}
        /\ DOMAIN o.env = EnvNames
        /\ o.env.EMBEDDING_MODEL = "" /\ o.self.embedding_model = ""
        /\ o.env.RETRIEVER_PROVIDER = "elastic" /\ o.self.retriever_provider = "elastic"
        /\ o.env.RESPONSE_MODEL = "openai/gpt-4" /\ o.self.response_model = "openai/gpt-4"
        /\ o.env.USER_ID = "env_user" /\ o.self.user_id = "env_user"

(* ---------------- C4 ---------------- *)

\* C4: with no arguments and no variable set the five fields hold the
\* built-in defaults; and any field neither supplied nor set in the
\* environment holds its built-in default, whatever the rest.
C4_Defaults ==
    \A o \in Objects :
        /\ (o.cls = "Configuration" /\ DOMAIN o.kwargs = {} /\ DOMAIN o.env \cap EnvNames = {})
              => /\ o.self.user_id = ""
                 /\ o.self.embedding_model = "openai/text-embedding-3-small"
                 /\ o.self.retriever_provider = "elastic"
                 /\ o.self.response_model = "anthropic/claude-3-5-sonnet-20240620"
                 /\ o.self.query_model = "anthropic/claude-3-haiku-20240307"
        /\ \A f \in BoundFields(o.cls) :
              (f \notin DOMAIN o.kwargs /\ VarOf[f] \notin DOMAIN o.env)
                  => o.self[f] = BuiltIn[f]

C4_Witness ==
    /\ \E o \in Objects :
          /\ o.cls = "Configuration" /\ DOMAIN o.kwargs = {} /\ DOMAIN o.env = {}
          /\ o.self.user_id = ""
          /\ o.self.retriever_provider = "elastic"

(* ---------------- C5 ---------------- *)

\* C5: a bound field passed explicitly with its built-in default value takes
\* the environment variable's value when that is set, and the object is in
\* every field the one built with that field omitted.
C5_DefaultEqualExplicitIsUnset ==
    \A o \in Objects : \A f \in BoundFields(o.cls) \cap DOMAIN o.kwargs :
        o.kwargs[f] = BuiltIn[f]
            => /\ VarOf[f] \in DOMAIN o.env => o.self[f] = o.env[VarOf[f]]
               /\ o.self = Construct(o.cls, Without(o.kwargs, f), o.env)

C5_Witness ==
    \E o \in Objects :
        /\ o.cls = "Configuration"
        /\ "response_model" \in DOMAIN o.kwargs
        /\ o.kwargs.response_model = "anthropic/claude-3-5-sonnet-20240620"
        /\ "RESPONSE_MODEL" \in DOMAIN o.env
        /\ o.self.response_model = "openai/gpt-4"
        /\ "user_id" \in DOMAIN o.kwargs /\ o.kwargs.user_id = ""
        /\ "USER_ID" \in DOMAIN o.env /\ o.self.user_id = "env_user"

(* ---------------- C6 ---------------- *)

BaseEnvNames == {"USER_ID", "EMBEDDING_MODEL", "RETRIEVER_PROVIDER"}

\* C6: an IndexConfiguration resolves its three bound fields by the rule from
\* USER_ID, EMBEDDING_MODEL and RETRIEVER_PROVIDER alone, and the base
\* fields of a Configuration are those of the IndexConfiguration built with
\* the same base arguments, whatever RESPONSE_MODEL and QUERY_MODEL hold.
C6_BaseFieldsAgree ==
    \A o \in Objects :
        /\ o.cls = "IndexConfiguration"
              => /\ o.self = IndexConfiguration(o.kwargs, Restrict(o.env, BaseEnvNames))
                 /\ \A f \in BoundFields(o.cls) :
                       o.self[f] = IF f \in DOMAIN o.kwargs /\ o.kwargs[f] # BuiltIn[f]
                                   THEN o.kwargs[f]
                                   ELSE EnvOrBuiltIn(o.env, f)
        /\ o.cls = "Configuration"
              => \A f \in IndexFields :
                    o.self[f] = IndexConfiguration(Restrict(o.kwargs, IndexFields),
                                                   Restrict(o.env, BaseEnvNames))[f]

\* a Configuration that took its three base fields from the environment,
\* with RESPONSE_MODEL and QUERY_MODEL set as well
C6_Witness ==
    \E o \in Objects :
        /\ o.cls = "Configuration" /\ DOMAIN o.kwargs = {"response_model"}
        /\ DOMAIN o.env = EnvNames
        /\ o.self.user_id = "env_user"
        /\ o.self.embedding_model = "cohere/embed-english-v3.0"
        /\ o.self.retriever_provider = "mongodb"

(* ---------------- C7 ---------------- *)

\* C7: search_kwargs and the two system prompts hold the caller's value, or
\* the built-in value when omitted, whatever the environment and the other
\* fields are.
C7_UnboundFieldsUntouched ==
    \A o \in Objects : \A f \in UnboundFields(o.cls) :
        o.self[f] = IF f \in DOMAIN o.kwargs THEN o.kwargs[f] ELSE BuiltIn[f]

C7_Witness ==
    \E o \in Objects :
        /\ o.cls = "Configuration"
        /\ DOMAIN o.env = EnvNames
        /\ DOMAIN o.kwargs = {"search_kwargs", "query_system_prompt", "query_model"}
        /\ o.self.search_kwargs = {<<"k", 10>>}
        /\ o.self.query_system_prompt = "Rewrite the query."
        /\ o.self.response_system_prompt = RESPONSE_SYSTEM_PROMPT

(* ---------------- C8 ---------------- *)

\* C8: no constructor call raises, and a retriever_provider outside the
\* annotated literals, passed explicitly or through RETRIEVER_PROVIDER, is
\* stored unchanged.
C8_NoValidation ==
    \A o \in Objects :
        /\ o.exc = "None"
        /\ ("retriever_provider" \in DOMAIN o.kwargs
              /\ o.kwargs.retriever_provider \notin RetrieverProviders)
              => o.self.retriever_provider = o.kwargs.retriever_provider
        /\ ("retriever_provider" \notin DOMAIN o.kwargs
              /\ "RETRIEVER_PROVIDER" \in DOMAIN o.env
              /\ o.env.RETRIEVER_PROVIDER \notin RetrieverProviders)
              => o.self.retriever_provider = o.env.RETRIEVER_PROVIDER

\* an IndexConfiguration holding a provider that came from RETRIEVER_PROVIDER
\* and is none of the annotated literals
C8_Witness ==
    \E o \in Objects :
        /\ o.cls = "IndexConfiguration"
        /\ "retriever_provider" \notin DOMAIN o.kwargs
        /\ "RETRIEVER_PROVIDER" \in DOMAIN o.env
        /\ o.env.RETRIEVER_PROVIDER \notin RetrieverProviders
        /\ o.self.retriever_provider = o.env.RETRIEVER_PROVIDER
        /\ o.exc = "None"

(* ---------------- C9 ---------------- *)

\* C9: a constructed object never changes, whatever is later done to the
\* environment and whatever is constructed later; and a construction leaves
\* the environment as it is.
C9_ReadOnlyAtConstruction ==
    [][ /\ Len(objs') >= Len(objs)
        /\ \A i \in 1..Len(objs) : objs'[i] = objs[i]
        /\ objs' # objs => environ' = environ ]_vars

\* the first object took USER_ID from the environment, USER_ID has since been
\* unset, EMBEDDING_MODEL set, and a second object has been constructed
C9_Witness ==
    /\ Len(objs) = 2
    /\ objs[1].cls = "Configuration" /\ DOMAIN objs[1].kwargs = {}
    /\ DOMAIN objs[1].env = {"USER_ID"}
    /\ objs[1].self.user_id = "env_user"
    /\ objs[1].self.embedding_model = "openai/text-embedding-3-small"
    /\ objs[2].env # objs[1].env
    /\ DOMAIN environ = {"EMBEDDING_MODEL"}

(* ---------------- C10 ---------------- *)

\* C10: objects of one class constructed with the same arguments under the
\* same environment are equal field for field, and the defaulting pass run
\* again on a constructed object under that environment changes nothing.
C10_Deterministic ==
    /\ \A o1, o2 \in Objects :
          (o1.cls = o2.cls /\ o1.kwargs = o2.kwargs /\ o1.env = o2.env)
              => o1.self = o2.self
    /\ \A o \in Objects : PostInit(o.cls, o.self, o.env) = o.self

\* the same call made twice under the same environment, which was changed in
\* between and changed back
C10_Witness ==
    /\ Len(objs) = 2
    /\ objs[1].cls = "Configuration" /\ objs[2].cls = "Configuration"
    /\ objs[1].kwargs = objs[2].kwargs
    /\ DOMAIN objs[1].kwargs = {"embedding_model", "response_model"}
    /\ objs[1].env = objs[2].env
    /\ DOMAIN objs[1].env = {"USER_ID", "RETRIEVER_PROVIDER"}
    /\ objs[2].self.user_id = "env_user"
    /\ DOMAIN environ = {}

====
